---- MODULE Spec2Model ----
(***************************************************************************)
(* ArticleGenius (src/src/App.js): the React component App, its state      *)
(* hooks, the three handlers and the article-to-Markdown serializer.       *)
(*                                                                         *)
(* JavaScript strings that are inspected character by character (article   *)
(* text, Markdown output, file names, the topic) are sequences of          *)
(* one-character strings.  Strings that are only stored and compared       *)
(* (messages, block types, program counters) are TLA+ strings.             *)
(* null is NULL (the empty tuple) and a held object o is <<o>>.            *)
(* A JavaScript object is a record; a property that is undefined is a      *)
(* field that is not in the record's DOMAIN.                               *)
(***************************************************************************)
EXTENDS Integers, Sequences, FiniteSets, TLC

VARIABLES
  topic,        \* useState('')    App.js:4   the topic input's text
  article,      \* useState(null)  App.js:5   NULL or <<data>>
  loading,      \* useState(false) App.js:6
  error,        \* useState(null)  App.js:7   NULL or <<message>>
  copySuccess,  \* useState('')    App.js:8   "" or a message
  requests,     \* the invocations of handleGenerateArticle that are suspended at an await
  started,      \* number of generation requests started so far
  articleFrom,  \* the request (1..started) whose response set the held article, 0 if none
  clipboard,    \* the navigator.clipboard.writeText promises that have not settled
  timers,       \* number of pending setTimeout callbacks of handleCopyArticle
  objectUrls,   \* [created, live]: URL.createObjectURL calls so far, URLs not yet revoked
  downloaded,   \* NULL or <<[name, content, req]>>: the file of the last link.click()
  articleData,  \* serializer call: the argument passed to formatArticleAsMarkdown
  result        \* serializer call: NULL before the call, then <<[fault, value]>>

vars == <<topic, article, loading, error, copySuccess, requests, started, articleFrom,
          clipboard, timers, objectUrls, downloaded, articleData, result>>

appVars == <<topic, article, loading, error, copySuccess, requests, started, articleFrom,
             clipboard, timers, objectUrls, downloaded>>

callVars == <<articleData, result>>

NULL == <<>>

-----------------------------------------------------------------------------
(* Strings *)

NL == <<"\n">>

Str_Untitled == <<"U","n","t","i","t","l","e","d"," ","A","r","t","i","c","l","e">>
Str_Image == <<"I","m","a","g","e">>
Str_undefined == <<"u","n","d","e","f","i","n","e","d">>
Str_FaqHeading ==
  <<"#","#"," ","F","r","e","q","u","e","n","t","l","y"," ","A","s","k","e","d",
    " ","Q","u","e","s","t","i","o","n","s">>
Str_ConclusionHeading == <<"#","#"," ","C","o","n","c","l","u","s","i","o","n">>
Str_Q == <<"*","*","Q",":","*","*">>
Str_A == <<"*","*","A",":","*","*">>
Str_article == <<"a","r","t","i","c","l","e">>
Str_md == <<".","m","d">>

\* obj.f is not undefined
Has(obj, f) == f \in DOMAIN obj

\* obj.f used as a condition, for a property that holds a string when defined:
\* undefined and '' are falsy
Truthy(obj, f) == Has(obj, f) /\ obj[f] # <<>>

\* ${obj.f} inside a template literal
Template(obj, f) == IF Has(obj, f) THEN obj[f] ELSE Str_undefined

\* obj.f || dflt
OrElse(obj, f, dflt) == IF Truthy(obj, f) THEN obj[f] ELSE dflt

\* block.type
TypeOf(block) == IF Has(block, "type") THEN block.type ELSE "undefined"

-----------------------------------------------------------------------------
(* formatArticleAsMarkdown, App.js:58-98 *)

\* a call either returns a value or throws
Return(v) == [fault |-> FALSE, value |-> v]
Throw == [fault |-> TRUE, value |-> <<>>]

\* BlockMarkdown without the test of block.url (App.js:78)
BlockMarkdown_noUrlTest(block) ==
  IF TypeOf(block) = "text"
    THEN Template(block, "value") \o NL \o NL
    ELSE IF TypeOf(block) = "image"
      THEN <<"!","[">> \o OrElse(block, "caption", Str_Image) \o <<"]","(">>
           \o Template(block, "url") \o <<")">> \o NL \o NL
      ELSE <<>>

\* App.js:76-80, the body of section.content.forEach: what one block appends
BlockMarkdown(block) ==
  IF TypeOf(block) = "text"
    THEN Template(block, "value") \o NL \o NL
    ELSE IF TypeOf(block) = "image" /\ Truthy(block, "url")
      THEN <<"!","[">> \o OrElse(block, "caption", Str_Image) \o <<"]","(">>
           \o block.url \o <<")">> \o NL \o NL
      ELSE <<>>

\* ContentLoop visiting the blocks from the last to the first
RECURSIVE ContentLoop_reversed(_, _, _)
ContentLoop_reversed(content, j, markdown) ==
  IF j > Len(content) THEN markdown
  ELSE ContentLoop_reversed(content, j + 1,
         markdown \o BlockMarkdown(content[Len(content) + 1 - j]))

\* App.js:75-81, section.content.forEach from block j on
RECURSIVE ContentLoop(_, _, _)
ContentLoop(content, j, markdown) ==
  IF j > Len(content) THEN markdown
  ELSE ContentLoop(content, j + 1, markdown \o BlockMarkdown(content[j]))

\* App.js:72-74, the heading of one section
HeadingMarkdown(section) ==
  IF Truthy(section, "heading")
    THEN <<"#","#","#"," ">> \o section.heading \o NL \o NL
    ELSE <<>>

\* App.js:71-82, articleData.sections.forEach from section i on; reading
\* .forEach of an undefined section.content throws a TypeError
RECURSIVE SectionsLoop(_, _, _)
SectionsLoop(sections, i, markdown) ==
  IF i > Len(sections) THEN Return(markdown)
  ELSE IF ~Has(sections[i], "content") THEN Throw
  ELSE SectionsLoop(sections, i + 1,
         ContentLoop(sections[i].content, 1, markdown \o HeadingMarkdown(sections[i])))

\* App.js:86-89, articleData.faq_section.forEach from entry k on
RECURSIVE FaqLoop(_, _, _)
FaqLoop(faq, k, markdown) ==
  IF k > Len(faq) THEN markdown
  ELSE FaqLoop(faq, k + 1,
         markdown \o <<"*"," ">> \o Str_Q \o <<" ">> \o Template(faq[k], "question") \o NL
                  \o <<" "," ">> \o Str_A \o <<" ">> \o Template(faq[k], "answer") \o NL \o NL)

\* FaqMarkdown without the test of faq_section.length (App.js:84)
FaqMarkdown_noLengthTest(a, markdown) ==
  IF Has(a, "faq_section")
    THEN FaqLoop(a.faq_section, 1, markdown \o Str_FaqHeading \o NL \o NL)
    ELSE markdown

\* App.js:84-90
FaqMarkdown(a, markdown) ==
  IF Has(a, "faq_section") /\ Len(a.faq_section) > 0
    THEN FaqLoop(a.faq_section, 1, markdown \o Str_FaqHeading \o NL \o NL)
    ELSE markdown

\* ConclusionMarkdown testing conclusion !== undefined instead of its truthiness
ConclusionMarkdown_definedTest(a, markdown) ==
  IF Has(a, "conclusion")
    THEN markdown \o Str_ConclusionHeading \o NL \o NL \o a.conclusion \o NL \o NL
    ELSE markdown

\* App.js:92-95
ConclusionMarkdown(a, markdown) ==
  IF Truthy(a, "conclusion")
    THEN markdown \o Str_ConclusionHeading \o NL \o NL \o a.conclusion \o NL \o NL
    ELSE markdown

\* App.js:61-69, title, subtitle and introduction
HeadMarkdown(a) ==
  LET m1 == <<"#"," ">> \o OrElse(a, "title", Str_Untitled) \o NL \o NL
      m2 == IF Truthy(a, "subtitle")
              THEN m1 \o <<"#","#"," ">> \o a.subtitle \o NL \o NL ELSE m1
  IN  IF Truthy(a, "introduction") THEN m2 \o a.introduction \o NL \o NL ELSE m2

\* formatArticleAsMarkdown with articleData.sections?.forEach: sections that
\* are undefined are skipped
formatArticleAsMarkdown_optionalSections(ad) ==
  IF ad = NULL THEN Return(<<>>)
  ELSE LET a == ad[1] IN
    LET body == IF Has(a, "sections") THEN SectionsLoop(a.sections, 1, HeadMarkdown(a))
                ELSE Return(HeadMarkdown(a)) IN
      IF body.fault THEN Throw
      ELSE Return(ConclusionMarkdown(a, FaqMarkdown(a, body.value)))

\* App.js:58-98.  ad is NULL or <<object>>
formatArticleAsMarkdown(ad) ==
  IF ad = NULL THEN Return(<<>>)
  ELSE LET a == ad[1] IN
    IF ~Has(a, "sections") THEN Throw
    ELSE LET body == SectionsLoop(a.sections, 1, HeadMarkdown(a)) IN
      IF body.fault THEN Throw
      ELSE Return(ConclusionMarkdown(a, FaqMarkdown(a, body.value)))

-----------------------------------------------------------------------------
(* Article records: the inputs of the serializer *)

\* the size of an input article: the optional strings it defines (title,
\* subtitle, introduction, conclusion) + its sections + their content blocks
\* + its FAQ entries
MaxSize == 4

Str_Conclusion == <<"C","o","n","c","l","u","s","i","o","n">>
Str_Faq ==
  <<"F","r","e","q","u","e","n","t","l","y"," ","A","s","k","e","d",
    " ","Q","u","e","s","t","i","o","n","s">>

\* an optional property: NULL leaves it undefined, <<v>> sets it to v
Field(f, opt) == IF opt = NULL THEN <<>> ELSE f :> opt[1]

TitlePool == {NULL, <<<<>>>>, <<<<"M","a","r","s">>>>}
SubtitlePool == {NULL, <<Str_Conclusion>>, <<Str_Faq>>}
IntroductionPool == {NULL, <<<<"i","n">>>>}
ConclusionPool == {NULL, <<<<>>>>, <<<<"e","n","d">>>>}
HeadingPool == {NULL, <<<<"H">>>>}

BlockPool ==
  { [type |-> "text", value |-> <<"b">>],
    [type |-> "text", value |-> <<"a">>],
    [type |-> "image", url |-> <<"u">>, caption |-> <<"c">>],
    [type |-> "image", url |-> <<"u">>],
    [type |-> "image", caption |-> <<"c">>],
    [type |-> "image", url |-> <<>>, caption |-> <<>>],
    [type |-> "video", value |-> <<"v">>] }

FaqPool ==
  { [question |-> <<"p">>, answer |-> <<"x">>],
    [question |-> <<"q">>, answer |-> <<"y">>],
    [question |-> <<"w">>, answer |-> Str_Q] }

\* the sequences over pool of length at most n
SeqsUpTo(pool, n) == UNION { [1..k -> pool] : k \in 0..n }

\* the sections with at most n blocks
SectionPool(n) ==
  { Field("heading", h) @@ ("content" :> c) : h \in HeadingPool, c \in SeqsUpTo(BlockPool, n) }

\* the section sequences with at most n sections and blocks in all
RECURSIVE SectionSeqs(_)
SectionSeqs(n) ==
  IF n <= 0 THEN {<<>>}
  ELSE {<<>>} \cup UNION { { <<sec>> \o rest : rest \in SectionSeqs(n - 1 - Len(sec.content)) }
                           : sec \in SectionPool(n - 1) }

\* sections and blocks of a section sequence
RECURSIVE SectionsSize(_)
SectionsSize(secs) ==
  IF secs = <<>> THEN 0 ELSE 1 + Len(Head(secs).content) + SectionsSize(Tail(secs))

\* title, subtitle, introduction, conclusion with at most n of them defined
Scalars(n) ==
  { sc \in TitlePool \X SubtitlePool \X IntroductionPool \X ConclusionPool :
      Cardinality({ k \in 1..4 : sc[k] # NULL }) <= n }

ScalarsSize(sc) == Cardinality({ k \in 1..4 : sc[k] # NULL })

\* an article record of the data model (spec.md section 3) from its parts
Article(sc, secs, faq) ==
  Field("title", sc[1]) @@ Field("subtitle", sc[2]) @@ Field("introduction", sc[3])
    @@ ("sections" :> secs) @@ Field("faq_section", faq) @@ Field("conclusion", sc[4])

\* the optional FAQ sequences of at most n entries
FaqSeqs(n) == {NULL} \cup { <<f>> : f \in SeqsUpTo(FaqPool, n) }

\* the same object without its sections property
WithoutSections(a) == [ p \in DOMAIN a \ {"sections"} |-> a[p] ]

\* the same object with a first section that has no content property
WithBadSection(a) == [ a EXCEPT !.sections = <<[heading |-> <<"H">>]>> \o @ ]

IsValid(ad) ==
  /\ ad # NULL
  /\ Has(ad[1], "sections")
  /\ \A i \in 1..Len(ad[1].sections) : Has(ad[1].sections[i], "content")

\* ad is an argument formatArticleAsMarkdown is called with: null, an article
\* record of size at most MaxSize, or an object that is not an article record
\* (no sections property, or a section without content)
IsSerializerInput(ad) ==
  \/ ad = NULL
  \/ \E secs \in SectionSeqs(MaxSize) :
       \E sc \in Scalars(MaxSize - SectionsSize(secs)) :
         \E faq \in FaqSeqs(MaxSize - SectionsSize(secs) - ScalarsSize(sc)) :
           \/ ad = <<Article(sc, secs, faq)>>
           \/ secs = <<>> /\ ad = <<WithoutSections(Article(sc, secs, faq))>>
           \/ Len(secs) <= 1 /\ faq = NULL /\ ad = <<WithBadSection(Article(sc, secs, faq))>>

-----------------------------------------------------------------------------
(* The serializer called on its own *)

AppIdle ==
  /\ topic = <<>> /\ article = NULL /\ loading = FALSE /\ error = NULL
  /\ copySuccess = "" /\ requests = <<>> /\ started = 0 /\ articleFrom = 0
  /\ clipboard = <<>> /\ timers = 0
  /\ objectUrls = [created |-> 0, live |-> {}] /\ downloaded = NULL

InitCall ==
  /\ AppIdle
  /\ IsSerializerInput(articleData)
  /\ result = NULL

Call ==
  /\ result = NULL
  /\ result' = <<formatArticleAsMarkdown(articleData)>>
  /\ UNCHANGED <<articleData, appVars>>

NextCall == Call

SpecCall == InitCall /\ [][NextCall]_vars

-----------------------------------------------------------------------------
(* The component App: state, render and handlers *)

\* generation requests started in one behaviour
MaxRequests == 3
\* clipboard writes pending at one time
MaxClipboard == 2
\* setTimeout callbacks pending at one time
MaxTimers == 2
\* downloads in one behaviour
MaxDownloads == 2
\* length of the topic typed into the input
MaxTopicLen == 1

MsgEnterTopic == "Please enter a topic to generate an article."
MsgFailed == "Failed to generate article"
MsgNoDownload == "No article to download."
MsgNoCopy == "No article to copy."
MsgCopied == "Article copied to clipboard!"
MsgCopyFailed == "Failed to copy article. Please try manually."

\* the characters a topic is typed from
TopicChars == {" ", "a"}
Topics == SeqsUpTo(TopicChars, MaxTopicLen)

WhiteSpace == {" ", "\t", "\n"}

\* String.prototype.trim
Trim(str) ==
  LET keep == { i \in 1..Len(str) : str[i] \notin WhiteSpace } IN
    IF keep = {} THEN <<>>
    ELSE SubSeq(str, CHOOSE i \in keep : \A k \in keep : i <= k,
                     CHOOSE i \in keep : \A k \in keep : i >= k)

\* the article records the generation service answers with
ResponseArticles ==
  { [title |-> <<"M","a","r","s">>,
     sections |-> <<[heading |-> <<"H">>, content |-> <<[type |-> "text", value |-> <<"b">>]>>]>>],
    [sections |-> <<>>, conclusion |-> <<"e","n","d">>] }

\* the sequence without its i-th element
Remove(seq, i) == SubSeq(seq, 1, i - 1) \o SubSeq(seq, i + 1, Len(seq))

\* App.js:160, the topic input's disabled attribute
InputDisabled == loading

\* SubmitDisabled that never disables the button
SubmitDisabled_never == FALSE

\* App.js:165, the submit button's disabled attribute
SubmitDisabled == loading

\* App.js:184, the download and copy buttons are rendered inside {article && (...)}
ExportButtonsRendered == article # NULL

\* App.js:157, onChange of the topic input
setTopic(value) ==
  /\ ~InputDisabled
  /\ topic' = value
  /\ UNCHANGED <<article, loading, error, copySuccess, requests, started, articleFrom,
                 clipboard, timers, objectUrls, downloaded, callVars>>

\* handleGenerateArticle without setArticle(null) (App.js:23)
handleGenerateArticle_keepsArticle ==
  /\ ~SubmitDisabled
  /\ IF Trim(topic) = <<>>
       THEN /\ error' = <<MsgEnterTopic>>
            /\ UNCHANGED <<article, articleFrom, loading, copySuccess, requests, started>>
       ELSE /\ started < MaxRequests
            /\ loading' = TRUE
            /\ error' = NULL
            /\ copySuccess' = ""
            /\ started' = started + 1
            /\ requests' = Append(requests, [id |-> started + 1, pc |-> "fetch", body |-> topic])
            /\ UNCHANGED <<article, articleFrom>>
  /\ UNCHANGED <<topic, clipboard, timers, objectUrls, downloaded, callVars>>

\* App.js:14-34, the form's onSubmit up to the first await: the blank-topic
\* return, or the four set-state calls and the fetch
handleGenerateArticle ==
  /\ ~SubmitDisabled
  /\ IF Trim(topic) = <<>>
       THEN /\ error' = <<MsgEnterTopic>>
            /\ UNCHANGED <<article, articleFrom, loading, copySuccess, requests, started>>
       ELSE /\ started < MaxRequests
            /\ loading' = TRUE
            /\ error' = NULL
            /\ article' = NULL
            /\ articleFrom' = 0
            /\ copySuccess' = ""
            /\ started' = started + 1
            /\ requests' = Append(requests, [id |-> started + 1, pc |-> "fetch", body |-> topic])
  /\ UNCHANGED <<topic, clipboard, timers, objectUrls, downloaded, callVars>>

\* App.js:28,36,37,41: the fetch promise resolves with a response; the handler
\* goes on to await response.json(), of the error body if !response.ok
FetchResolved(i, ok) ==
  /\ i \in 1..Len(requests)
  /\ requests[i].pc = "fetch"
  /\ requests' = [requests EXCEPT ![i].pc = IF ok THEN "data" ELSE "errorData"]
  /\ UNCHANGED <<topic, article, loading, error, copySuccess, started, articleFrom,
                 clipboard, timers, objectUrls, downloaded, callVars>>

\* Failed that leaves loading set (no finally block)
Failed_noFinally(i) ==
  /\ error' = <<MsgFailed>>
  /\ requests' = Remove(requests, i)
  /\ UNCHANGED <<topic, article, loading, copySuccess, started, articleFrom,
                 clipboard, timers, objectUrls, downloaded, callVars>>

\* App.js:45-50, the catch and finally blocks
Failed(i) ==
  /\ error' = <<MsgFailed>>
  /\ loading' = FALSE
  /\ requests' = Remove(requests, i)
  /\ UNCHANGED <<topic, article, copySuccess, started, articleFrom,
                 clipboard, timers, objectUrls, downloaded, callVars>>

\* App.js:28, the fetch promise rejects
FetchRejected(i) ==
  /\ i \in 1..Len(requests)
  /\ requests[i].pc = "fetch"
  /\ Failed(i)

\* App.js:37-38, response.json() of a response that is not ok settles: the
\* handler throws, whether the body was parsed or not
ErrorDataSettled(i) ==
  /\ i \in 1..Len(requests)
  /\ requests[i].pc = "errorData"
  /\ Failed(i)

\* App.js:41, response.json() of an ok response rejects (the body is not
\* JSON, or the connection breaks while it is read)
DataRejected(i) ==
  /\ i \in 1..Len(requests)
  /\ requests[i].pc = "data"
  /\ Failed(i)

\* App.js:41-43,49, response.json() of an ok response resolves with data
DataResolved(i, data) ==
  /\ i \in 1..Len(requests)
  /\ requests[i].pc = "data"
  /\ article' = <<data>>
  /\ articleFrom' = requests[i].id
  /\ loading' = FALSE
  /\ requests' = Remove(requests, i)
  /\ UNCHANGED <<topic, error, copySuccess, started, clipboard, timers, objectUrls,
                 downloaded, callVars>>

-----------------------------------------------------------------------------
(* Download *)

\* the characters /[a-z0-9]/i matches
LowerCaseLetters ==
  <<"a","b","c","d","e","f","g","h","i","j","k","l","m",
    "n","o","p","q","r","s","t","u","v","w","x","y","z">>
UpperCaseLetters ==
  <<"A","B","C","D","E","F","G","H","I","J","K","L","M",
    "N","O","P","Q","R","S","T","U","V","W","X","Y","Z">>
Digits == {"0","1","2","3","4","5","6","7","8","9"}
Range(f) == { f[i] : i \in DOMAIN f }
AlphaNumeric == Range(LowerCaseLetters) \cup Range(UpperCaseLetters) \cup Digits

\* .replace(/[^a-z0-9]/gi, '_')
ReplaceNonAlphaNumeric(str) ==
  [ i \in 1..Len(str) |-> IF str[i] \in AlphaNumeric THEN str[i] ELSE "_" ]

\* toLowerCase of one character
LowerChar(c) ==
  IF c \in Range(UpperCaseLetters)
    THEN LowerCaseLetters[CHOOSE i \in 1..26 : UpperCaseLetters[i] = c]
    ELSE IF c = "É" THEN "é" ELSE c

\* .toLowerCase()
ToLowerCase(str) == [ i \in 1..Len(str) |-> LowerChar(str[i]) ]

\* DownloadName with the case-sensitive /[^a-z0-9]/g
DownloadName_caseSensitive(a) ==
  LET str == OrElse(a, "title", Str_article) IN
    ToLowerCase([ i \in 1..Len(str) |->
                    IF str[i] \in Range(LowerCaseLetters) \cup Digits THEN str[i] ELSE "_" ])
    \o Str_md

\* App.js:113, link.download
DownloadName(a) ==
  ToLowerCase(ReplaceNonAlphaNumeric(OrElse(a, "title", Str_article))) \o Str_md

\* RevokeObjectURL that revokes nothing
RevokeObjectURL_nothing(urls, url) == urls

\* App.js:117, URL.revokeObjectURL(url)
RevokeObjectURL(urls, url) == urls \ {url}

\* App.js:110, URL.createObjectURL(blob): a URL never handed out before
CreateObjectURL(urls) == urls.created + 1

\* App.js:103-118, onClick of the download button
handleDownloadArticle ==
  /\ ExportButtonsRendered
  /\ IF article = NULL
       THEN /\ error' = <<MsgNoDownload>>
            /\ UNCHANGED <<objectUrls, downloaded>>
       ELSE LET markdownContent == formatArticleAsMarkdown(article)
                url == CreateObjectURL(objectUrls) IN
            /\ ~markdownContent.fault
            /\ objectUrls.created < MaxDownloads
            /\ objectUrls' = [created |-> url,
                              live |-> RevokeObjectURL(objectUrls.live \cup {url}, url)]
            /\ downloaded' = <<[name |-> DownloadName(article[1]),
                                content |-> markdownContent.value,
                                from |-> articleFrom]>>
            /\ UNCHANGED error
  /\ UNCHANGED <<topic, article, loading, copySuccess, requests, started, articleFrom,
                 clipboard, timers, callVars>>

-----------------------------------------------------------------------------
(* Copy *)

\* App.js:123-132, onClick of the copy button up to the await
handleCopyArticle ==
  /\ ExportButtonsRendered
  /\ IF article = NULL
       THEN /\ error' = <<MsgNoCopy>>
            /\ UNCHANGED clipboard
       ELSE /\ ~formatArticleAsMarkdown(article).fault
            /\ Len(clipboard) < MaxClipboard
            /\ clipboard' = Append(clipboard, [from |-> articleFrom])
            /\ UNCHANGED error
  /\ UNCHANGED <<topic, article, loading, copySuccess, requests, started, articleFrom,
                 timers, objectUrls, downloaded, callVars>>

\* App.js:132-134, writeText resolves
ClipboardResolved(i) ==
  /\ i \in 1..Len(clipboard)
  /\ timers < MaxTimers
  /\ clipboard' = Remove(clipboard, i)
  /\ copySuccess' = MsgCopied
  /\ timers' = timers + 1
  /\ UNCHANGED <<topic, article, loading, error, requests, started, articleFrom,
                 objectUrls, downloaded, callVars>>

\* App.js:135-138, writeText rejects
ClipboardRejected(i) ==
  /\ i \in 1..Len(clipboard)
  /\ clipboard' = Remove(clipboard, i)
  /\ copySuccess' = MsgCopyFailed
  /\ UNCHANGED <<topic, article, loading, error, requests, started, articleFrom,
                 timers, objectUrls, downloaded, callVars>>

\* App.js:134, the callback of setTimeout(..., 3000)
TimerFired ==
  /\ timers > 0
  /\ timers' = timers - 1
  /\ copySuccess' = ""
  /\ UNCHANGED <<topic, article, loading, error, requests, started, articleFrom,
                 clipboard, objectUrls, downloaded, callVars>>

-----------------------------------------------------------------------------
(* The application *)

\* App.js:4-8, the initial values of the state hooks
Init ==
  /\ AppIdle
  /\ articleData = NULL
  /\ result = NULL

FetchSettles ==
  \E i \in 1..Len(requests) : FetchResolved(i, TRUE) \/ FetchResolved(i, FALSE) \/ FetchRejected(i)

BodySettles ==
  \E i \in 1..Len(requests) :
    \/ ErrorDataSettled(i)
    \/ DataRejected(i)
    \/ \E data \in ResponseArticles : DataResolved(i, data)

Next ==
  \/ \E value \in Topics : setTopic(value)
  \/ handleGenerateArticle
  \/ FetchSettles
  \/ BodySettles
  \/ handleDownloadArticle
  \/ handleCopyArticle
  \/ \E i \in 1..Len(clipboard) : ClipboardResolved(i)
  \/ \E i \in 1..Len(clipboard) : ClipboardRejected(i)
  \/ TimerFired

Spec == Init /\ [][Next]_vars

\* every fetch and every response.json() promise settles
FairSpec == Spec /\ WF_vars(FetchSettles) /\ WF_vars(BodySettles)

-----------------------------------------------------------------------------
(* Downloads of a held article *)

\* length of the title of the held article
MaxTitleLen == 2

\* an upper-case letter, a lower-case letter, a digit, a space, a letter that
\* is not ASCII, a punctuation mark
TitleChars == {"A", "z", "7", " ", "É", "-"}

\* the application after the response to its first request has set the article
InitDownload ==
  /\ \E t \in {NULL} \cup { <<str>> : str \in SeqsUpTo(TitleChars, MaxTitleLen) } :
       article = <<Field("title", t) @@ ("sections" :> <<>>)>>
  /\ topic = <<"a">> /\ loading = FALSE /\ error = NULL /\ copySuccess = ""
  /\ requests = <<>> /\ started = 1 /\ articleFrom = 1
  /\ clipboard = <<>> /\ timers = 0
  /\ objectUrls = [created |-> 0, live |-> {}] /\ downloaded = NULL
  /\ articleData = NULL /\ result = NULL

NextDownload == handleDownloadArticle

SpecDownload == InitDownload /\ [][NextDownload]_vars

-----------------------------------------------------------------------------
(* Reading a Markdown string *)

\* pat occurs in s
Contains(s, pat) ==
  \E i \in 1..(Len(s) - Len(pat) + 1) : SubSeq(s, i, i + Len(pat) - 1) = pat

\* the positions at which a line of s starts
LineStarts(s) == { p \in 1..Len(s) : p = 1 \/ s[p - 1] = "\n" }

\* the line of s that starts at p, without its line break
LineAt(s, p) ==
  LET ends == { i \in p..Len(s) : s[i] = "\n" }
      e == IF ends = {} THEN Len(s) + 1 ELSE CHOOSE i \in ends : \A k \in ends : i <= k
  IN  SubSeq(s, p, e - 1)

\* the starts of the lines of s that contain pat, and the k-th such line
StartsWith(s, pat) == { p \in LineStarts(s) : Contains(LineAt(s, p), pat) }
NthLineWith(s, pat, k) ==
  LET ps == StartsWith(s, pat)
  IN  LineAt(s, CHOOSE p \in ps : Cardinality({ q \in ps : q <= p }) = k)

\* line is a line of s
HasLine(s, line) == \E p \in LineStarts(s) : LineAt(s, p) = line

\* the first line of s
FirstLine(s) == LineAt(s, 1)

\* all the strings an article record holds
StringsOf(a) ==
  { a[f] : f \in DOMAIN a \cap {"title", "subtitle", "introduction", "conclusion"} }
  \cup UNION { { sec[f] : f \in DOMAIN sec \cap {"heading"} }
               \cup UNION { { sec.content[j][f] :
                                f \in DOMAIN sec.content[j] \cap {"value", "url", "caption"} }
                            : j \in 1..Len(sec.content) }
               : sec \in { a.sections[i] : i \in 1..Len(a.sections) } }
  \cup (IF Has(a, "faq_section")
          THEN UNION { { a.faq_section[k].question, a.faq_section[k].answer }
                       : k \in 1..Len(a.faq_section) }
          ELSE {})

\* the serializer has been called on an article record and has returned
Called == result # NULL
Returned == Called /\ IsValid(articleData) /\ ~result[1].fault
Input == articleData[1]
Output == result[1].value

\* the number of FAQ entries of an article
FaqCount(a) == IF Has(a, "faq_section") THEN Len(a.faq_section) ELSE 0

-----------------------------------------------------------------------------
(* C1 *)

RECURSIVE Flatten(_)
Flatten(seqs) == IF seqs = <<>> THEN <<>> ELSE Head(seqs) \o Flatten(Tail(seqs))

\* the elements the claim lists, in the claim's order
C1_BlockElements(block) ==
  IF TypeOf(block) = "text" THEN <<block.value>>
  ELSE IF TypeOf(block) = "image" /\ Truthy(block, "url")
    THEN << <<"!","[">> \o (IF Truthy(block, "caption") THEN block.caption ELSE Str_Image)
            \o <<"]","(">> \o block.url \o <<")">> >>
    ELSE <<>>

C1_SectionElements(sec) ==
  (IF Truthy(sec, "heading") THEN << <<"#","#","#"," ">> \o sec.heading >> ELSE <<>>)
  \o Flatten([ j \in 1..Len(sec.content) |-> C1_BlockElements(sec.content[j]) ])

C1_FaqElements(a) ==
  IF FaqCount(a) = 0 THEN <<>>
  ELSE <<Str_FaqHeading>> \o
       [ k \in 1..Len(a.faq_section) |->
           <<"*"," ">> \o Str_Q \o <<" ">> \o a.faq_section[k].question \o NL
           \o <<" "," ">> \o Str_A \o <<" ">> \o a.faq_section[k].answer ]

C1_Elements(a) ==
  << <<"#"," ">> \o (IF Truthy(a, "title") THEN a.title ELSE Str_Untitled) >>
  \o (IF Truthy(a, "subtitle") THEN << <<"#","#"," ">> \o a.subtitle >> ELSE <<>>)
  \o (IF Truthy(a, "introduction") THEN <<a.introduction>> ELSE <<>>)
  \o Flatten([ i \in 1..Len(a.sections) |-> C1_SectionElements(a.sections[i]) ])
  \o C1_FaqElements(a)
  \o (IF Truthy(a, "conclusion") THEN <<Str_ConclusionHeading, a.conclusion>> ELSE <<>>)

\* C1: for every article record the serializer returns exactly the title line
\* ('Untitled Article' for an absent or empty title), the subtitle line if
\* present, the introduction if present, each section in input order (heading
\* line, then its blocks in input order, text values verbatim), the FAQ part
\* and the conclusion part, each element followed by a blank line (an FAQ
\* entry, its Q line and its A line, is one element); nothing is sorted,
\* dropped as a duplicate or reordered.
C1_ExactConcatenation ==
  (Called /\ IsValid(articleData)) =>
    /\ ~result[1].fault
    /\ Output = Flatten([ k \in 1..Len(C1_Elements(Input)) |-> C1_Elements(Input)[k] \o NL \o NL ])

\* two sections, the second with two text blocks in the order "b", "a"
C1_Witness ==
  /\ Returned
  /\ Len(Input.sections) = 2
  /\ Len(Input.sections[2].content) = 2
  /\ Input.sections[2].content[1] = [type |-> "text", value |-> <<"b">>]
  /\ Input.sections[2].content[2] = [type |-> "text", value |-> <<"a">>]

-----------------------------------------------------------------------------
(* C2 *)

\* C2 as stated: a null article and an article without a sections property
\* both make the serializer throw.
C2_NullOrNoSectionsFaults ==
  (Called /\ (articleData = NULL \/ ~Has(articleData[1], "sections"))) => result[1].fault

\* C2 amended: an article without a sections property makes the serializer
\* throw; a null article makes it return the empty string.
C2_NoSectionsFaultsNullReturnsEmpty ==
  Called =>
    /\ (articleData # NULL /\ ~Has(articleData[1], "sections")) => result[1].fault
    /\ articleData = NULL => result[1] = [fault |-> FALSE, value |-> <<>>]

C2_Witness ==
  /\ Called
  /\ articleData # NULL
  /\ ~Has(articleData[1], "sections")
  /\ Has(articleData[1], "title")
  /\ result[1].fault

-----------------------------------------------------------------------------
(* C3 *)

\* article a with block j of section i replaced by the blocks bs
WithBlocks(a, i, j, bs) ==
  [ a EXCEPT !.sections[i].content =
      SubSeq(@, 1, j - 1) \o bs \o SubSeq(@, j + 1, Len(@)) ]

C3_ImageLine(block) ==
  <<"!","[">> \o (IF Truthy(block, "caption") THEN block.caption ELSE Str_Image)
  \o <<"]","(">> \o block.url \o <<")">>

\* C3: an image block with a url contributes exactly the line
\* ![caption](url), with the word Image for an absent (undefined or empty)
\* caption: the output has that line and is the output of the same article
\* with a text block of that line in the image's place.  An image block
\* without a url (undefined or empty) and a block of any other type contribute
\* nothing: the output is the output of the article without the block, and the
\* call does not throw.
C3_ImageAndUnknownBlocks ==
  (Called /\ IsValid(articleData)) =>
    /\ ~result[1].fault
    /\ \A i \in 1..Len(Input.sections) : \A j \in 1..Len(Input.sections[i].content) :
         LET block == Input.sections[i].content[j] IN
           IF TypeOf(block) = "image" /\ Truthy(block, "url")
             THEN /\ HasLine(Output, C3_ImageLine(block))
                  /\ result[1] = formatArticleAsMarkdown(
                       <<WithBlocks(Input, i, j, <<[type |-> "text", value |-> C3_ImageLine(block)]>>)>>)
           ELSE IF TypeOf(block) # "text"
             THEN result[1] = formatArticleAsMarkdown(<<WithBlocks(Input, i, j, <<>>)>>)
             ELSE TRUE

\* the article holds an image without caption, an image without url and a
\* block of another type
C3_Witness ==
  /\ Returned
  /\ \E i \in 1..Len(Input.sections) :
       { Input.sections[i].content[j] : j \in 1..Len(Input.sections[i].content) }
         = { [type |-> "image", url |-> <<"u">>],
             [type |-> "image", caption |-> <<"c">>],
             [type |-> "video", value |-> <<"v">>] }
  /\ HasLine(Output, <<"!","[">> \o Str_Image \o <<"]","(","u",")">>)

-----------------------------------------------------------------------------
(* C4 *)

\* for N FAQ entries: N lines with **Q:** and N lines with **A:**, the k-th of
\* each from the k-th entry; for N = 0 no FAQ heading
C4_FaqLines(a, out) ==
  /\ Cardinality(StartsWith(out, Str_Q)) = FaqCount(a)
  /\ Cardinality(StartsWith(out, Str_A)) = FaqCount(a)
  /\ \A k \in 1..FaqCount(a) :
       /\ NthLineWith(out, Str_Q, k) = <<"*"," ">> \o Str_Q \o <<" ">> \o a.faq_section[k].question
       /\ NthLineWith(out, Str_A, k) = <<" "," ">> \o Str_A \o <<" ">> \o a.faq_section[k].answer
  /\ FaqCount(a) = 0 => ~Contains(out, Str_FaqHeading)

C4_Plain(a) ==
  /\ \A str \in StringsOf(a) :
       ~Contains(str, Str_Q) /\ ~Contains(str, Str_A) /\ ~Contains(str, Str_Faq)
  /\ \A k \in 1..FaqCount(a) :
       ~Contains(a.faq_section[k].question, NL) /\ ~Contains(a.faq_section[k].answer, NL)

-----------------------------------------------------------------------------
(* C5 *)

\* C5 as stated: for every article record without conclusion the output has
\* no heading line '## Conclusion', whatever the other fields hold.
C5_NoConclusionHeadingAlways ==
  (Returned /\ ~Has(Input, "conclusion")) => ~HasLine(Output, Str_ConclusionHeading)

\* C5 amended: for every article record without conclusion (undefined or
\* empty) the output has no heading line '## Conclusion', unless another field
\* supplies it: the first line of the subtitle is 'Conclusion', or a string of
\* the article contains '## Conclusion'.
C5_NoConclusionHeadingUnlessSupplied ==
  ( /\ Returned
    /\ ~Truthy(Input, "conclusion")
    /\ ~(Truthy(Input, "subtitle") /\ FirstLine(Input.subtitle) = Str_Conclusion)
    /\ \A str \in StringsOf(Input) : ~Contains(str, Str_ConclusionHeading) )
  => ~HasLine(Output, Str_ConclusionHeading)

\* an article with another subtitle, a section and an FAQ, and an empty conclusion
C5_Witness ==
  /\ Returned
  /\ Has(Input, "conclusion") /\ Input.conclusion = <<>>
  /\ Truthy(Input, "subtitle") /\ Input.subtitle = Str_Faq
  /\ Len(Input.sections) = 1
  /\ FaqCount(Input) = 1
  /\ ~HasLine(Output, Str_ConclusionHeading)

-----------------------------------------------------------------------------
(* C6 *)

\* a download has just been triggered
Downloading == objectUrls'.created # objectUrls.created

C6_IsLetterOrDigit(c) ==
  \/ c \in Digits
  \/ \E i \in 1..26 : c = LowerCaseLetters[i] \/ c = UpperCaseLetters[i]

C6_Lowered(c) ==
  IF \E i \in 1..26 : c = UpperCaseLetters[i]
    THEN LowerCaseLetters[CHOOSE i \in 1..26 : c = UpperCaseLetters[i]]
    ELSE c

\* C6: the download suggests the file name made from the title by replacing
\* every character that is not a letter (a-z, A-Z) or a digit by '_',
\* lower-casing and appending '.md'; without a title (undefined or empty) it
\* is 'article.md'.  The base name has only characters of [a-z0-9_].
C6_DownloadFileName ==
  [][ Downloading =>
        LET name == downloaded'[1].name
            base == SubSeq(name, 1, Len(name) - 3)
            a == article[1]
        IN /\ Len(name) >= 3
           /\ SubSeq(name, Len(name) - 2, Len(name)) = <<".","m","d">>
           /\ \A i \in 1..Len(base) : base[i] \in Range(LowerCaseLetters) \cup Digits \cup {"_"}
           /\ IF Has(a, "title") /\ a.title # <<>>
                THEN /\ Len(base) = Len(a.title)
                     /\ \A i \in 1..Len(base) :
                          base[i] = IF C6_IsLetterOrDigit(a.title[i])
                                      THEN C6_Lowered(a.title[i]) ELSE "_"
                ELSE base = <<"a","r","t","i","c","l","e">> ]_vars

\* the title 'ÉA' has been downloaded as '_a.md'
C6_Witness ==
  /\ downloaded # NULL
  /\ article # NULL /\ Has(article[1], "title") /\ article[1].title = <<"É","A">>
  /\ downloaded[1].name = <<"_","a",".","m","d">>

-----------------------------------------------------------------------------
(* C7 *)

\* a response is being applied: request i leaves the pending requests
Completing(i) ==
  /\ i \in 1..Len(requests)
  /\ requests' = Remove(requests, i)

\* C7: the held article is set only by the successful response of a
\* generation request; while a request is pending the held article is null; a
\* held article is the article of the latest request started, and that is the
\* article download and copy read.
C7_ArticleOfLatestRequest ==
  /\ [](requests # <<>> => article = NULL)
  /\ [](article # NULL => articleFrom = started)
  /\ [][ (article' # article /\ article' # NULL) =>
           \E i \in 1..Len(requests) :
             requests[i].pc = "data" /\ Completing(i) /\ articleFrom' = requests[i].id ]_vars
  /\ [][ (requests = <<>> /\ requests' # <<>>) => article' = NULL ]_vars
  /\ [][ (Downloading \/ Len(clipboard') > Len(clipboard)) =>
           (article # NULL /\ articleFrom = started) ]_vars
  /\ [](downloaded # NULL => downloaded[1].from <= started)

\* the second request is pending after the article of the first was downloaded
C7_Witness ==
  /\ started = 2
  /\ requests # <<>>
  /\ article = NULL
  /\ downloaded # NULL /\ downloaded[1].from = 1

-----------------------------------------------------------------------------
(* C8 *)

\* C8: every object URL a download creates is revoked within the same
\* handler: no object URL is live once a download action has completed.
C8_ObjectUrlsRevoked ==
  objectUrls.live = {}

\* two downloads have completed
C8_Witness ==
  /\ objectUrls.created = 2
  /\ downloaded # NULL
  /\ objectUrls.live = {}

-----------------------------------------------------------------------------
(* C9 *)

\* C9: at most one generation request is pending at any time; while one is
\* pending, loading is true and the topic input and the submit button are
\* disabled, so that no request starts and the topic does not change; and the
\* request a response is applied for is the latest request started.
C9_SingleRequestInFlight ==
  /\ [](Len(requests) <= 1)
  /\ [](requests # <<>> => (loading /\ InputDisabled /\ SubmitDisabled))
  /\ [][ requests # <<>> => (started' = started /\ topic' = topic) ]_vars
  /\ [][ \A i \in 1..Len(requests) : Completing(i) => requests[i].id = started ]_vars

\* the second request is pending with the response of the first applied
C9_Witness ==
  /\ Len(requests) = 1
  /\ requests[1].id = 2
  /\ requests[1].pc = "data"
  /\ loading

-----------------------------------------------------------------------------
(* C10 *)

\* while a request is pending, loading is set and article and error are null;
\* when it completes, loading is reset and exactly one of article and error
\* is not null
C10_PendingAndCompletion ==
  /\ [](requests # <<>> => (loading /\ article = NULL /\ error = NULL))
  /\ [][ \A i \in 1..Len(requests) : Completing(i) =>
           (~loading' /\ ((article' # NULL) # (error' # NULL))) ]_vars
  /\ [][ (~loading /\ loading') => requests' # <<>> ]_vars

-----------------------------------------------------------------------------
(* C11 *)

\* C11: starting a generation request clears the copy status message, and the
\* message stays empty until a copy action triggered after that start sets
\* it: while the request is pending the message is empty, and the message is
\* set only when a clipboard write settles that was issued for the article of
\* the latest request started.
C11_CopyStatusStaysCleared ==
  /\ [][ (requests = <<>> /\ requests' # <<>>) => copySuccess' = "" ]_vars
  /\ [](requests # <<>> => copySuccess = "")
  /\ [][ (copySuccess' # copySuccess /\ copySuccess' # "") =>
           \E i \in 1..Len(clipboard) :
             clipboard' = Remove(clipboard, i) /\ clipboard[i].from = started ]_vars

====
